---- MODULE Spec2Model ----
(***************************************************************************)
(* A model of rctjavalib: the frame codec (crc.js, build.js, the           *)
(* DatagramParser), the response cache, and the Connection with its        *)
(* request queue, reader, timers and pool (connection.js).                 *)
(*                                                                         *)
(* Conventions                                                             *)
(*  - A byte sequence (Buffer, Uint8Array, array) is a TLA+ sequence; the  *)
(*    JavaScript index i is the TLA+ index i + 1.  Operators that return   *)
(*    an index return the JavaScript (0-based) index.                      *)
(*  - The model checker's integers are 32-bit signed.  A register id n     *)
(*    (up to 2^32 - 1) is therefore held as the pair <<n \div 65536,       *)
(*    n % 65536>>; an out-of-range id has its first component outside      *)
(*    0..65535.  The CRC register is a JavaScript int32 and is held as     *)
(*    that signed value.                                                   *)
(***************************************************************************)
EXTENDS Integers, Sequences, FiniteSets, TLC

VARIABLES
    \* ---- frame codec: a builder under test ----
    builder,        \* the DatagramBuilder: buffer[0..pos), crc, crcBytesCount
    buildError,     \* message thrown by the last build(), "" if it returned
    built,          \* the arguments of the build() calls so far, in order
    parsed,         \* result of parser.parse() on builder.bytes()
    \* ---- frame codec: a byte stream played to a reader ----
    wire,           \* the byte stream sent to the reader, from its first byte
    sentFrames,     \* the datagrams whose frames were put on the wire
    tamper,         \* the one corruption applied to the wire, if any
    fed,            \* number of bytes of the wire the reader has received
    readBuffer,     \* Connection.readBuffer of the receiving reader
    events,         \* what the reader loop has produced so far
    heldPartial,    \* a 'data' event has left bytes waiting in readBuffer
    \* ---- connection.js ----
    _connectionPool,    \* the pool: key -> instance number, 0 if none
    conns,              \* the Connection objects, by instance number
    jobs,               \* the jobs enqueued so far, in order
    got,                \* what getPooledConnection returned, if the last
                        \* step was a call of it
    thrown,             \* the arguments of write() and what it threw before
                        \* its first await, if the last step was such a call
    \* ---- cache.js: one Cache under test ----
    entries,        \* Cache.entries: the Map, as its entries in key order
    now,            \* Date.now()
    lastPut,        \* history: per id the time of the latest put, -1 if none
    evicted,        \* history: the ids whose entry cleanup() removed for size
                    \* and that were not put again since
    returned        \* the last call on the Cache and what it returned

codecVars == <<builder, buildError, built, parsed, wire, sentFrames, tamper,
               fed, readBuffer, events, heldPartial>>

connVars == <<_connectionPool, conns, jobs, got, thrown>>

cacheVars == <<entries, now, lastPut, evicted, returned>>

vars == <<codecVars, connVars, cacheVars>>

(***************************************************************************)
(* Bounds of the model                                                     *)
(***************************************************************************)
MaxFrames == 2          \* frames put on the wire in one run
MaxBuilds == 2          \* build() calls on the builder under test
MaxConns == 2           \* Connection instances constructed
MaxJobs == 4            \* jobs enqueued on all instances together
MaxSpecJobs == 2        \* jobs enqueued in a run of one Connection
MaxPoolJobs == 1        \* jobs enqueued in a run of the pool
\* process.env.MAX_RETRIES || 10
MAX_RETRIES == 2

(***************************************************************************)
(* Program constants                                                       *)
(***************************************************************************)
START_BYTE == 43        \* 0x2B
ESCAPE_BYTE == 45       \* 0x2D
READ == 1
WRITE == 2
LONG_WRITE == 3
RESERVED1 == 4
RESPONSE == 5
LONG_RESPONSE == 6
RESERVED2 == 7
READ_PERIODICALLY == 8
EXTENSION == 60         \* 0x3C

Command == {READ, WRITE, LONG_WRITE, RESERVED1, RESPONSE, LONG_RESPONSE,
            RESERVED2, READ_PERIODICALLY, EXTENSION}

(***************************************************************************)
(* 32-bit helpers                                                          *)
(***************************************************************************)
\* bit k of the two's complement integer x:  (x >> k) & 1
BitAt(x, k) == (x \div (2 ^ k)) % 2

\* x ^ (1 << k)
FlipBit(x, k) == IF BitAt(x, k) = 1 THEN x - 2 ^ k ELSE x + 2 ^ k

\* ToInt32(x << 1): bits 0..30 move up, bit 30 becomes the sign
Shl1(x) ==
    LET low30 == x % 1073741824
    IN  IF BitAt(x, 30) = 1 THEN (low30 - 1073741824) * 2 ELSE low30 * 2

(***************************************************************************)
(* crc.js                                                                  *)
(***************************************************************************)
CRC_reset == [crc |-> 65535, isOdd |-> FALSE]

\* crc ^= 0x1021
CRC_xorPoly(x) == FlipBit(FlipBit(FlipBit(x, 0), 5), 12)

\* the loop of update() from turn i on: crc is an int32 that is never
\* masked back to 16 bits
RECURSIVE CRC_loop(_, _, _)
CRC_loop(crc, b, i) ==
    IF i = 8 THEN crc
    ELSE IF (BitAt(crc, 15) = 1) # (BitAt(b, 7 - i) = 1)
         THEN CRC_loop(CRC_xorPoly(Shl1(crc)), b, i + 1)
         ELSE CRC_loop(Shl1(crc), b, i + 1)

CRC_update(c, b) == [crc |-> CRC_loop(c.crc, b, 0), isOdd |-> ~c.isOdd]

\* get() pads the CRC stream with one zero byte when isOdd, then returns
\* this.crc; the padded state is kept in the object
CRC_padded(c) == IF c.isOdd THEN CRC_update(c, 0) ELSE c

CRC_get(c) == CRC_padded(c).crc

(***************************************************************************)
(* build.js: DatagramBuilder.  The record holds buffer[0 .. pos) (what     *)
(* bytes() returns; the spare capacity behind pos is never read), the CRC  *)
(* object and crcBytesCount.  A datagram is [cmd, id, data]; data = null   *)
(* is the empty sequence, as `dg.data || []` makes it.                     *)
(***************************************************************************)
DatagramBuilder == [buffer |-> <<>>, crc |-> CRC_reset, crcBytesCount |-> 0]

\* a reset() that leaves the builder as it is
reset_keepsState(b) == b

reset(b) == [buffer |-> <<>>, crc |-> CRC_reset, crcBytesCount |-> 0]

bytes(b) == b.buffer

\* a store into the Uint8Array keeps the low 8 bits
_rawWriteByteNoCRC(b, x) == [b EXCEPT !.buffer = Append(@, x % 256)]

writeByteNoCRC(b, x) == _rawWriteByteNoCRC(b, x)

_rawWriteByteCrc(b, x) ==
    [b EXCEPT !.buffer = Append(@, x % 256),
              !.crc = CRC_update(@, x),
              !.crcBytesCount = @ + 1]

writeByteWithEscape(b, x) ==
    IF x = START_BYTE \/ x = ESCAPE_BYTE
    THEN _rawWriteByteCrc(_rawWriteByteNoCRC(b, ESCAPE_BYTE), x)
    ELSE _rawWriteByteCrc(b, x)

RECURSIVE writeAllWithEscape(_, _)
\* writeByteWithEscape for each byte of xs in order (the first half of xs,
\* then the second: the result is that of the loop, the evaluation is
\* shallow)
writeAllWithEscape(b, xs) ==
    IF xs = <<>> THEN b
    ELSE IF Len(xs) = 1 THEN writeByteWithEscape(b, xs[1])
    ELSE LET h == Len(xs) \div 2
             w == writeAllWithEscape(b, SubSeq(xs, 1, h))
         IN  IF w.crcBytesCount >= 0
             THEN writeAllWithEscape(w, SubSeq(xs, h + 1, Len(xs)))
             ELSE w

writeCRC(b) ==
    LET c1     == IF b.crcBytesCount % 2 = 1 THEN CRC_update(b.crc, 0) ELSE b.crc
        c2     == CRC_padded(c1)
        crcVal == c2.crc
        hi     == (crcVal \div 256) % 256
        lo     == crcVal % 256
    IN  [b EXCEPT !.crc = c2, !.buffer = @ \o <<hi, lo>>]

\* the four id bytes, most significant first
idBytes(id) == <<(id[1] \div 256) % 256, id[1] % 256,
                 (id[2] \div 256) % 256, id[2] % 256>>

\* the id check without its upper limit
idInRange_noUpperLimit(id) == id[1] >= 0

\* dg.id < 0 || dg.id > 0xFFFFFFFF
idInRange(id) == id[1] >= 0 /\ id[1] <= 65535

\* build(dg): the builder afterwards and the error thrown ("" if none)
build(b, dg) ==
    LET r == reset(b)
    IN  IF ~idInRange(dg.id)
        THEN [builder |-> r, error |-> "Invalid ID"]
        ELSE IF dg.cmd < 0 \/ dg.cmd > 255
        THEN [builder |-> r, error |-> "Invalid command"]
        ELSE IF \E k \in 1..Len(dg.data) : dg.data[k] < 0 \/ dg.data[k] > 255
        THEN [builder |-> r, error |-> "Invalid data byte"]
        ELSE LET length == 4 + Len(dg.data)
                 w1 == writeByteNoCRC(r, START_BYTE)
                 w2 == writeByteWithEscape(w1, dg.cmd)
                 w3 == writeByteWithEscape(w2, length)
                 w4 == writeAllWithEscape(w3, idBytes(dg.id))
                 w5 == writeAllWithEscape(w4, dg.data)
             IN  [builder |-> writeCRC(w5), error |-> ""]

(***************************************************************************)
(* DatagramParser (the _findStartIndex / _unescapeFrame parser).           *)
(* parse() reads this.buffer only; buf stands for it.                      *)
(***************************************************************************)
\* index of the first 0x2B that is not preceded by 0x2D, or -1
RECURSIVE findStartFrom(_, _)
findStartFrom(buf, i) ==
    IF i >= Len(buf) THEN -1
    ELSE IF buf[i + 1] = START_BYTE /\ (i = 0 \/ buf[i] # ESCAPE_BYTE) THEN i
    ELSE findStartFrom(buf, i + 1)

_findStartIndex(buf) == findStartFrom(buf, 0)

\* the while loop of _unescapeFrame from raw index i with `out` collected so
\* far; ok = FALSE is the `return null` for a trailing escape byte
RECURSIVE unescapeFrom(_, _, _)
unescapeFrom(buf, i, out) ==
    IF i >= Len(buf) THEN [ok |-> TRUE, out |-> out]
    ELSE IF buf[i + 1] = ESCAPE_BYTE
         THEN IF i + 1 >= Len(buf) THEN [ok |-> FALSE, out |-> <<>>]
              ELSE unescapeFrom(buf, i + 2, Append(out, buf[i + 2]))
    ELSE IF buf[i + 1] = START_BYTE THEN [ok |-> TRUE, out |-> out]
    ELSE unescapeFrom(buf, i + 1, Append(out, buf[i + 1]))

_unescapeFrame(buf, startIndex) == unescapeFrom(buf, startIndex + 1, <<>>)

RECURSIVE CRC_feed(_, _)
CRC_feed(c, xs) ==
    IF xs = <<>> THEN c ELSE CRC_feed(CRC_update(c, Head(xs)), Tail(xs))

_computeCrcPad(xs) ==
    LET summed == CRC_feed(CRC_reset, xs)
        padded == IF Len(xs) % 2 = 1 THEN CRC_update(summed, 0) ELSE summed
    IN  CRC_get(padded)

NoDatagram == [cmd |-> 0, id |-> <<0, 0>>, data |-> <<>>]

ParseNull == [kind |-> "null", error |-> "", datagram |-> NoDatagram]

ParseError(msg) == [kind |-> "error", error |-> msg, datagram |-> NoDatagram]

\* the comparison `crcCalc !== crcReceived` of parse(): crcCalc is what
\* CRC.get() returned, crcReceived the 16-bit value read from the frame
crcMatches(crcCalc, crcReceived) == crcCalc = crcReceived

\* parse(): kind "null" is `return null` (need more data), "error" a thrown
\* RecoverableError, "datagram" the returned Datagram
parse(buf) ==
    LET startIndex == _findStartIndex(buf)
    IN  IF startIndex < 0 THEN ParseNull
        ELSE LET un == _unescapeFrame(buf, startIndex)
                 u  == un.out
             IN  IF ~un.ok THEN ParseNull
                 ELSE IF Len(u) < 8 THEN ParseNull
                 ELSE IF u[2] < 4 THEN ParseError("Short frame")
                 ELSE IF Len(u) < 2 + u[2] + 2 THEN ParseNull
                 ELSE LET length      == u[2]
                          dataBytes   == SubSeq(u, 7, 2 + length)
                          crcReceived == u[2 + length + 1] * 256 + u[2 + length + 2]
                          crcCalc     == _computeCrcPad(SubSeq(u, 1, 2 + length))
                      IN  IF ~crcMatches(crcCalc, crcReceived)
                          THEN ParseError("CRC mismatch")
                          ELSE [kind |-> "datagram", error |-> "",
                                datagram |-> [cmd |-> u[1],
                                              id |-> <<u[3] * 256 + u[4],
                                                       u[5] * 256 + u[6]>>,
                                              data |-> dataBytes]]

\* {datagram, bytesConsumed}: the number of raw (escaped) bytes from the
\* head of the buffer to the end of the frame parse() returned
RECURSIVE rawEndFrom(_, _, _)
rawEndFrom(buf, i, n) ==
    IF n = 0 \/ i >= Len(buf) THEN i
    ELSE IF buf[i + 1] = ESCAPE_BYTE THEN rawEndFrom(buf, i + 2, n - 1)
    ELSE rawEndFrom(buf, i + 1, n - 1)

bytesConsumed(buf) ==
    LET startIndex == _findStartIndex(buf)
        u          == _unescapeFrame(buf, startIndex).out
    IN  rawEndFrom(buf, startIndex + 1, 2 + u[2] + 2)

(***************************************************************************)
(* connection.js, _onData: the reader loop over readBuffer.  It returns    *)
(* the buffer left and the outcomes in order: a datagram handed to         *)
(* _handleDatagram, or a parser error (the current waiter is rejected and  *)
(* one byte is dropped from the head).                                     *)
(***************************************************************************)
DatagramEvent(dg) == [kind |-> "datagram", error |-> "", datagram |-> dg]

ErrorEvent(msg) == [kind |-> "error", error |-> msg, datagram |-> NoDatagram]

RECURSIVE readLoop(_, _)
readLoop(buf, out) ==
    IF Len(buf) = 0 THEN [readBuffer |-> buf, events |-> out]
    ELSE LET p == parse(buf)
         IN  IF p.kind = "error"
             THEN readLoop(Tail(buf), Append(out, ErrorEvent(p.error)))
             ELSE IF p.kind = "null"
             THEN [readBuffer |-> buf, events |-> out]
             ELSE readLoop(SubSeq(buf, bytesConsumed(buf) + 1, Len(buf)),
                           Append(out, DatagramEvent(p.datagram)))

\* an _onData that forgets the bytes held from earlier chunks
_onData_dropsHeld(buf, chunk, out) == readLoop(chunk, out)

_onData(buf, chunk, out) == readLoop(buf \o chunk, out)

(***************************************************************************)
(* Inputs of the codec                                                     *)
(***************************************************************************)
Dg(cmd, hi, lo, data) == [cmd |-> cmd, id |-> <<hi, lo>>, data |-> data]

\* {cmd=1, id=0x400F015B} and {cmd=1, id=0xDB2D69AE}: the documented frames
DgS1 == Dg(READ, 16399, 347, <<>>)
DgS2 == Dg(READ, 56109, 27054, <<>>)
\* {cmd=1, id=0x0002EEB0}: the CRC register ends below 2^16 (0x38B0)
DgL0 == Dg(READ, 2, 61104, <<>>)
\* {cmd=5, id=0x000052D6, data=[2B 2D 07]}: escaped data bytes, odd length,
\* CRC register 0xE700
DgLD == Dg(RESPONSE, 0, 21206, <<43, 45, 7>>)
\* {cmd=1, id=0x2B2D1650}: escaped id bytes, CRC register 0xDC50
DgLE == Dg(READ, 11053, 5712, <<>>)
\* {cmd=1, id=0x009AC5F5}: CRC register 0x2B55, first CRC byte is 0x2B
DgLC == Dg(READ, 154, 50677, <<>>)
\* {cmd=1, id=0x00466BB3}: CRC register 0x2DD3, first CRC byte is 0x2D
DgLC2 == Dg(READ, 70, 27571, <<>>)

ValidDgs == {DgS1, DgS2, DgL0, DgLD, DgLE, DgLC, DgLC2}

\* id = -1, id = 0x100000000, cmd = -1, cmd = 256, data bytes -1 and 256
InvalidDgs == {Dg(READ, -1, 65535, <<1, 2, 3>>), Dg(READ, 65536, 0, <<1, 2, 3>>),
               Dg(-1, 0, 1, <<1, 2, 3>>), Dg(256, 0, 1, <<1, 2, 3>>),
               Dg(READ, 0, 1, <<-1, 2, 3>>), Dg(READ, 0, 1, <<256, 2, 3>>)}

\* {cmd=0xFF, id=0x00013850}: a cmd byte outside the command set that
\* build() accepts; the CRC register ends below 2^16 (0x3250)
DgFF == Dg(255, 1, 14416, <<>>)

\* {cmd=2, id=1, data = 252 zero bytes}: 4 + n no longer fits the length
\* byte
MaxData == 251

DgLong == Dg(WRITE, 0, 1, [i \in 1..(MaxData + 1) |-> 0])

DgInputs == ValidDgs \cup InvalidDgs \cup {DgFF, DgLong}

StreamDgs == {DgS1, DgS2, DgL0, DgLD}

NoiseBytes == {43, 45, 255}

AlterBytes == {5, 43}

\* the frame a fresh builder makes of dg
Frame(dg) == bytes(build(DatagramBuilder, dg).builder)

RECURSIVE Frames(_)
Frames(dgs) == IF dgs = <<>> THEN <<>> ELSE Frame(Head(dgs)) \o Frames(Tail(dgs))

\* positions (1-based, in the frame) of the bytes of cmd, len, id and data,
\* the escape bytes before them left out
RECURSIVE coveredFrom(_, _)
coveredFrom(xs, pos) ==
    IF xs = <<>> THEN {}
    ELSE IF Head(xs) = START_BYTE \/ Head(xs) = ESCAPE_BYTE
         THEN {pos + 1} \cup coveredFrom(Tail(xs), pos + 2)
         ELSE {pos} \cup coveredFrom(Tail(xs), pos + 1)

Covered(dg) ==
    coveredFrom(<<dg.cmd, 4 + Len(dg.data)>> \o idBytes(dg.id) \o dg.data, 2)

\* the longest frame of the stream inputs
MaxFrameLen == 14

NotParsed == [kind |-> "none", error |-> "", datagram |-> NoDatagram]

NoTamper == [kind |-> "none", pos |-> 0, byte |-> 0]

(***************************************************************************)
(* connection.js.  The operators below work on a world                     *)
(*    W = [pool, conns, jobs]                                              *)
(* pool is _connectionPool, conns the Connection objects by instance       *)
(* number, jobs the jobs ever enqueued: the {fn, resolve, reject} objects  *)
(* with the position their fn has reached.  Each operator is the           *)
(* synchronous run of one function up to its next await; an action is one  *)
(* event of the event loop with everything it runs before the event loop   *)
(* is idle again.  Datagrams reach a Connection already decoded: the       *)
(* reader loop is modelled above, here it only has its two outcomes.       *)
(***************************************************************************)
Conns == 1..MaxConns

\* the `${host}:${port}` keys in use
Hosts == {"inverter:8899"}

\* Identifier.BATTERY_STATUS (uint32, not writable) and
\* Identifier.POWER_MNG_USE_GRID_POWER_ENABLE (uint8, writable, 0 or 1)
BATTERY_STATUS == "BATTERY_STATUS"

POWER_MNG_USE_GRID_POWER_ENABLE == "POWER_MNG_USE_GRID_POWER_ENABLE"

Identifier == {BATTERY_STATUS, POWER_MNG_USE_GRID_POWER_ENABLE}

IdType(reg) == IF reg = BATTERY_STATUS THEN "uint32" ELSE "uint8"

\* errors that are instances of RecoverableError
RecoverableErrors ==
    {"Receive timed out", "Parsing error", "Mismatch", "Invalid data length",
     "Fallback Read failed", "Write and Read verification failed"}

\* _currentResolve when no waiter is installed; otherwise it holds the job
\* whose fn awaits the _receive call
NoWaiter == 0

\* an absent entry of the cache; a present one holds the datagram put
NoEntry == [present |-> FALSE, cmd |-> 0, id |-> "", data |-> <<>>]

\* a slot of conns no instance has been constructed in
NoConnection ==
    [exists |-> FALSE, host |-> "", conn |-> "null",
     onTimeout |-> FALSE, onError |-> FALSE,
     _idleTimeoutHandle |-> FALSE, _activeRequests |-> 0,
     _pendingClose |-> FALSE, _processing |-> FALSE, _requestQueue |-> <<>>,
     _currentResolve |-> NoWaiter, staleTimers |-> 0,
     cache |-> [r \in Identifier |-> NoEntry],
     pooled |-> FALSE, closeCalled |-> FALSE, closed |-> FALSE,
     discarded |-> FALSE,
     lastRequest |-> "none", sentOver |-> "none",
     started |-> <<>>, settled |-> <<>>]

\* new Connection(host, port, ...).  conn is "null", or the state of the
\* socket in this.conn: "connecting", "open" or "destroyed".  onTimeout and
\* onError say whether the once-listeners of connect() are still attached.
\* _idleTimeoutHandle is TRUE while the idle timer is pending.
\* The timeout timer of the _receive call of the current waiter is pending
\* as long as the waiter is installed; staleTimers counts the pending
\* timers of the _receive calls whose waiter is gone (setTimeout is never
\* cleared).
\* pooled, closeCalled, closed, discarded, lastRequest, sentOver, started
\* and settled record history: the instance was made by
\* getPooledConnection; close() was called by a user; _doClose() has run; a
\* datagram arrived while the job now running had no waiter installed;
\* what became
\* of the last request written; while a write is in progress, what had
\* become of the request before it; and the jobs in the order their fn was
\* called and their promise settled.  lastRequest is "none", "sent" (no
\* waiter was installed for it so far), "waiting", "settled" (its waiter
\* was resolved by a datagram or rejected by the timer of its own _receive
\* call or by a parser error, or its write failed) or "stale" (its waiter
\* was rejected by the timer of an earlier _receive call).
Connection(host) == [NoConnection EXCEPT !.exists = TRUE, !.host = host]

\* setIdleTimeout(): the default ms = 90000 arms the timer anew
setIdleTimeout(W, c) == [W EXCEPT !.conns[c]._idleTimeoutHandle = TRUE]

\* a _doClose() that leaves the pool alone
_doClose_keepsEntry(W, c) ==
    [W EXCEPT !.conns[c].conn = "null",
              !.conns[c].onTimeout = FALSE, !.conns[c].onError = FALSE,
              !.conns[c]._pendingClose = FALSE,
              !.conns[c].closed = TRUE]

\* _doClose(): the key is deleted whichever instance it is registered for
_doClose(W, c) ==
    [W EXCEPT !.conns[c].conn = "null",
              !.conns[c].onTimeout = FALSE, !.conns[c].onError = FALSE,
              !.pool[W.conns[c].host] = 0,
              !.conns[c]._pendingClose = FALSE,
              !.conns[c].closed = TRUE]

\* a close() that never defers
close_neverDefers(W, c) ==
    _doClose([W EXCEPT !.conns[c]._idleTimeoutHandle = FALSE], c)

close(W, c) ==
    LET W1 == [W EXCEPT !.conns[c]._idleTimeoutHandle = FALSE]
    IN  IF W.conns[c]._activeRequests > 0
        THEN [W1 EXCEPT !.conns[c]._pendingClose = TRUE]
        ELSE _doClose(W1, c)

\* Cache.put(dg) and Cache.cleanup() of query().  An entry older than the
\* timeout is a miss for get(), which deletes it, and is deleted by the
\* next cleanup(): it is held as absent from the moment it expires.  The
\* cache holds fewer than maxSize = 1000 ids.
Cache_put(W, c, dg) ==
    [W EXCEPT !.conns[c].cache[dg.id] =
                  [present |-> TRUE, cmd |-> dg.cmd, id |-> dg.id,
                   data |-> dg.data]]

\* _processDataHandler(dg, type): uint32() and uint8() throw a
\* RecoverableError unless the data length is 4 and 1
Decodes(reg, data) ==
    Len(data) = (IF IdType(reg) = "uint32" THEN 4 ELSE 1)

Decoded(reg, data) == data[Len(data)]

\* the object _enqueueRequest pushes, with the state of its fn.  kind is
\* "query" or "writeop" (the fn of _enqueueWriteOperation); pc is "queued",
\* the await the fn is suspended at ("connect", "write", "receive",
\* "backoff", "sleep800", "sleep200") or "done"; phase counts the steps of
\* a writeop: 1 WRITE sent, 2 READ sent, 3 second _receive; attempt is the
\* variable of retryOperation; calls counts the calls of operation() and
\* raised is the last error thrown at an await of the fn (both history).
\* A query made by
\* write() as its status pre-check carries what write() goes on with: cont
\* is "wait" until write() has resumed, wreg and wdata its register and
\* encoded value, werror the error write() threw after the pre-check.
\* nrx is the number of datagrams the job's waiter was resolved with and,
\* for a writeop, rx the last of them (history).  from is the datagram the
\* value of a query was decoded from and sent the number of frames the job
\* has handed to conn.write (both history).
NoResponse == [cmd |-> 0, id |-> "", data |-> <<>>]

Job(c, kind, reg, data) ==
    [conn |-> c, kind |-> kind, reg |-> reg, data |-> data,
     pc |-> "queued", phase |-> 0, attempt |-> 0, calls |-> 0, raised |-> "",
     status |-> "pending", value |-> 0, error |-> "",
     cont |-> "none", wreg |-> "", wdata |-> <<>>, werror |-> "",
     rx |-> NoResponse, nrx |-> 0, from |-> NoResponse, sent |-> 0]

Executing(job) == job.pc \notin {"queued", "done"}

receiveBusy(W, c) == W.conns[c]._currentResolve # NoWaiter

\* _receive(): the waiter is installed and its timeout timer armed
_receive(W, j) ==
    LET c == W.jobs[j].conn
    IN  [W EXCEPT !.conns[c]._currentResolve = j,
                  !.conns[c].lastRequest = "waiting",
                  !.jobs[j].pc = "receive"]

\* this.conn.write(outBuffer, cb) of send()
connWrite(W, j) ==
    LET c == W.jobs[j].conn
    IN  [W EXCEPT !.conns[c].sentOver = W.conns[c].lastRequest,
                  !.conns[c].lastRequest = "sent",
                  !.jobs[j].sent = @ + 1,
                  !.jobs[j].pc = "write"]

\* send(rdb): connect() first when there is no usable socket
send(W, j) ==
    LET c == W.jobs[j].conn
    IN  IF W.conns[c].conn \in {"null", "destroyed"}
        THEN [W EXCEPT !.conns[c].conn = "connecting",
                       !.conns[c].onTimeout = TRUE,
                       !.conns[c].onError = TRUE,
                       !.jobs[j].pc = "connect"]
        ELSE connWrite(W, j)

RECURSIVE _processLoop(_, _)
RECURSIVE jobEnds(_, _, _, _)

\* a _processQueue whose loop ends when a fn has thrown
jobEnds_stopsAfterError(W, j, value, error) ==
    LET c  == W.jobs[j].conn
        W1 == [W EXCEPT !.jobs[j].pc = "done",
                        !.jobs[j].status =
                            IF error = "" THEN "resolved" ELSE "rejected",
                        !.jobs[j].value = value,
                        !.jobs[j].error = error,
                        !.conns[c].settled = Append(@, j),
                        !.conns[c].discarded = FALSE,
                        !.conns[c]._activeRequests = @ - 1]
        W2 == setIdleTimeout(W1, c)
    IN  IF error = "" THEN _processLoop(W2, c)
        ELSE [W2 EXCEPT !.conns[c]._processing = FALSE]

\* _processQueue after `await job.fn()`: the promise of job j is settled
\* (error = "" is job.resolve(value)), then the loop goes on
jobEnds(W, j, value, error) ==
    LET c  == W.jobs[j].conn
        W1 == [W EXCEPT !.jobs[j].pc = "done",
                        !.jobs[j].status =
                            IF error = "" THEN "resolved" ELSE "rejected",
                        !.jobs[j].value = value,
                        !.jobs[j].error = error,
                        !.conns[c].settled = Append(@, j),
                        !.conns[c].discarded = FALSE,
                        !.conns[c]._activeRequests = @ - 1]
        W2 == setIdleTimeout(W1, c)
        W3 == IF W2.conns[c]._pendingClose /\ W2.conns[c]._activeRequests = 0
              THEN _doClose(W2, c)
              ELSE W2
    IN  _processLoop(W3, c)

\* a retryOperation whose loop allows one attempt more
retryOperation_oneMore(W, j) ==
    LET attempt == W.jobs[j].attempt + 1
        W1      == [W EXCEPT !.jobs[j].attempt = attempt]
    IN  IF attempt < MAX_RETRIES + 1
        THEN [W1 EXCEPT !.jobs[j].pc = "backoff"]
        ELSE jobEnds(W1, j, 0, "Max retries reached")

\* the catch of retryOperation for a RecoverableError
retryOperation(W, j) ==
    LET attempt == W.jobs[j].attempt + 1
        W1      == [W EXCEPT !.jobs[j].attempt = attempt]
    IN  IF attempt < MAX_RETRIES
        THEN [W1 EXCEPT !.jobs[j].pc = "backoff"]
        ELSE jobEnds(W1, j, 0, "Max retries reached")

\* a retryOperation that takes every error for a recoverable one
throws_retriesAll(W, j, error) ==
    LET W1 == [W EXCEPT !.jobs[j].raised = error]
    IN  IF W.jobs[j].kind = "query"
        THEN retryOperation(W1, j)
        ELSE IF W.jobs[j].pc = "receive"
             THEN jobEnds(W1, j, 0, "Fallback Read failed")
             ELSE jobEnds(W1, j, 0, error)

\* the await job j is suspended at throws error
throws(W, j, error) ==
    LET W1 == [W EXCEPT !.jobs[j].raised = error]
    IN  IF W.jobs[j].kind = "query"
        THEN IF error \in RecoverableErrors
             THEN retryOperation(W1, j)
             ELSE jobEnds(W1, j, 0, error)
        ELSE IF W.jobs[j].pc = "receive"
             THEN jobEnds(W1, j, 0, "Fallback Read failed")
             ELSE jobEnds(W1, j, 0, error)

\* `await this.send(this.builder)` has returned
afterSend(W, j) ==
    LET c == W.jobs[j].conn
    IN  IF W.jobs[j].kind = "query"
        THEN IF receiveBusy(W, c)
             THEN throws(W, j, "Another request is already waiting")
             ELSE _receive(W, j)
        ELSE IF W.jobs[j].phase = 1
             THEN [W EXCEPT !.jobs[j].pc = "sleep800"]
             ELSE IF receiveBusy(W, c)
                  THEN jobEnds([W EXCEPT !.jobs[j].raised =
                                    "Another request is already waiting"],
                               j, 0, "Fallback Read failed")
                  ELSE _receive(W, j)

\* a read-back check that does not compare the data
verify_ignoresData(W, j, dg) ==
    IF dg.cmd = RESPONSE /\ dg.id = W.jobs[j].reg
    THEN jobEnds(W, j, 0, "")
    ELSE jobEnds(W, j, 0, "Write and Read verification failed")

\* the read-back check of _enqueueWriteOperation
verify(W, j, dg) ==
    IF dg.cmd = RESPONSE /\ dg.id = W.jobs[j].reg /\ dg.data = W.jobs[j].data
    THEN jobEnds(W, j, 0, "")
    ELSE jobEnds(W, j, 0, "Write and Read verification failed")

\* a query that takes a datagram of its id whatever the cmd
received_ignoresCmd(W, j, dg) ==
    LET c   == W.jobs[j].conn
        reg == W.jobs[j].reg
    IN  IF W.jobs[j].kind = "query"
        THEN IF dg.id = reg
             THEN LET W1 == Cache_put(W, c, dg)
                  IN  IF Decodes(reg, dg.data)
                      THEN jobEnds([W1 EXCEPT !.jobs[j].from = dg], j,
                                   Decoded(reg, dg.data), "")
                      ELSE throws(W1, j, "Invalid data length")
             ELSE throws(W, j, "Mismatch")
        ELSE IF W.jobs[j].phase = 2 /\ Len(dg.data) = 0
             THEN [W EXCEPT !.jobs[j].pc = "sleep200"]
             ELSE verify(W, j, dg)

\* `await this._receive()` has returned dg
received(W, j, dg) ==
    LET c   == W.jobs[j].conn
        reg == W.jobs[j].reg
    IN  IF W.jobs[j].kind = "query"
        THEN IF dg.cmd = RESPONSE /\ dg.id = reg
             THEN LET W1 == Cache_put(W, c, dg)
                  IN  IF Decodes(reg, dg.data)
                      THEN jobEnds([W1 EXCEPT !.jobs[j].from = dg], j,
                                   Decoded(reg, dg.data), "")
                      ELSE throws(W1, j, "Invalid data length")
             ELSE throws(W, j, "Mismatch")
        ELSE IF W.jobs[j].phase = 2 /\ Len(dg.data) = 0
             THEN [W EXCEPT !.jobs[j].pc = "sleep200"]
             ELSE verify(W, j, dg)

\* a setTimeout whose callback leaves the fn of job j suspended
slept_neverResumes(W, j) == W

\* a setTimeout the fn of job j awaits has elapsed
slept(W, j) ==
    IF W.jobs[j].pc = "backoff"
    THEN send([W EXCEPT !.jobs[j].calls = @ + 1], j)
    ELSE IF W.jobs[j].pc = "sleep800"
    THEN send([W EXCEPT !.jobs[j].phase = 2], j)
    ELSE IF receiveBusy(W, W.jobs[j].conn)
         THEN jobEnds([W EXCEPT !.jobs[j].raised =
                           "Another request is already waiting"],
                      j, 0, "Fallback Read failed")
         ELSE _receive([W EXCEPT !.jobs[j].phase = 3], j)

\* job.fn() up to its first await
runFn(W, j) ==
    LET c   == W.jobs[j].conn
        reg == W.jobs[j].reg
        W0  == [W EXCEPT !.conns[c].started = Append(@, j),
                         !.jobs[j].pc = "running"]
    IN  IF W.jobs[j].kind = "query"
        THEN LET e == W0.conns[c].cache[reg]
             IN  IF e.present
                 THEN IF Decodes(reg, e.data)
                      THEN jobEnds([W0 EXCEPT !.jobs[j].from =
                                        [cmd |-> e.cmd, id |-> e.id,
                                         data |-> e.data]],
                                   j, Decoded(reg, e.data), "")
                      ELSE jobEnds(W0, j, 0, "Invalid data length")
                 ELSE send([W0 EXCEPT !.jobs[j].calls = 1], j)
        ELSE send([W0 EXCEPT !.jobs[j].phase = 1], j)

\* the while loop of _processQueue, from its test
_processLoop(W, c) ==
    IF W.conns[c]._requestQueue = <<>>
    THEN [W EXCEPT !.conns[c]._processing = FALSE]
    ELSE runFn([W EXCEPT !.conns[c]._requestQueue = Tail(@)],
               Head(W.conns[c]._requestQueue))

\* a _processQueue() that starts a loop even while one is running
_processQueue_noGuard(W, c) ==
    _processLoop([W EXCEPT !.conns[c]._processing = TRUE], c)

_processQueue(W, c) ==
    IF W.conns[c]._processing THEN W
    ELSE _processLoop([W EXCEPT !.conns[c]._processing = TRUE], c)

\* an _enqueueRequest that pushes the job without counting it
_enqueueRequest_noCount(W, c, job) ==
    LET j  == Len(W.jobs) + 1
        W1 == [W EXCEPT !.jobs = Append(@, job),
                        !.conns[c]._requestQueue = Append(@, j)]
    IN  _processQueue(W1, c)

_enqueueRequest(W, c, job) ==
    LET j  == Len(W.jobs) + 1
        W1 == [W EXCEPT !.jobs = Append(@, job),
                        !.conns[c]._activeRequests = @ + 1,
                        !.conns[c]._requestQueue = Append(@, j)]
    IN  _processQueue(W1, c)

query(W, c, reg) == _enqueueRequest(W, c, Job(c, "query", reg, <<>>))

_enqueueWriteOperation(W, c, reg, data) ==
    _enqueueRequest(W, c, Job(c, "writeop", reg, data))

\* write(identifier, value) up to `await this.query(BATTERY_STATUS)`
write(W, c, reg, data) ==
    _enqueueRequest(W, c, [Job(c, "query", BATTERY_STATUS, <<>>) EXCEPT
                               !.cont = "wait", !.wreg = reg, !.wdata = data])

\* module.exports of datagram.js
Exports == {"Datagram", "Command", "Identifier", "SOCStrategy", "InverterStates"}

\* what write() throws for a status other than 0: building the message
\* evaluates BatteryStatus.decode(...) before error.code is assigned, and
\* BatteryStatus is undefined unless datagram.js exports it
statusError ==
    IF "BatteryStatus" \in Exports THEN "BATTERY_NOT_NORMAL" ELSE "TypeError"

\* write() after its await: the pre-check jobs from j on that have settled.
\* A rejected pre-check makes write() throw the error of the query, a
\* status other than 0 makes it throw statusError.
RECURSIVE writeResumes(_, _)
writeResumes(W, j) ==
    IF j > Len(W.jobs) THEN W
    ELSE IF W.jobs[j].cont = "wait" /\ W.jobs[j].status # "pending"
    THEN IF W.jobs[j].status = "resolved" /\ W.jobs[j].value = 0
         THEN writeResumes(
                  _enqueueWriteOperation(
                      [W EXCEPT !.jobs[j].cont = "enqueued"],
                      W.jobs[j].conn, W.jobs[j].wreg, W.jobs[j].wdata),
                  j + 1)
         ELSE writeResumes(
                  [W EXCEPT !.jobs[j].cont = "failed",
                            !.jobs[j].werror =
                                IF W.jobs[j].status = "resolved"
                                THEN statusError ELSE W.jobs[j].error],
                  j + 1)
    ELSE writeResumes(W, j + 1)

\* a _handleDatagram that resolves the waiter and leaves it in the slot
_handleDatagram_keepsWaiter(W, c, dg) ==
    LET w == W.conns[c]._currentResolve
    IN  IF w # NoWaiter
        THEN received([W EXCEPT !.conns[c].staleTimers = @ + 1,
                                !.conns[c].lastRequest = "settled",
                                !.jobs[w].rx =
                                    IF W.jobs[w].kind = "writeop" THEN dg ELSE @,
                                !.jobs[w].nrx = @ + 1],
                      w, dg)
        ELSE [W EXCEPT !.conns[c].discarded = (W.conns[c]._activeRequests > 0)]

\* a _handleDatagram that hands a datagram nobody waits for to the fn that
\* is executing
_handleDatagram_keepsUnexpected(W, c, dg) ==
    LET w   == W.conns[c]._currentResolve
        run == {j \in 1..Len(W.jobs) :
                    W.jobs[j].conn = c /\ Executing(W.jobs[j])}
    IN  IF w # NoWaiter
        THEN received([W EXCEPT !.conns[c]._currentResolve = NoWaiter,
                                !.conns[c].staleTimers = @ + 1,
                                !.conns[c].lastRequest = "settled",
                                !.jobs[w].nrx = @ + 1],
                      w, dg)
        ELSE IF run # {}
             THEN LET r == CHOOSE j \in run : TRUE
                  IN  received([W EXCEPT !.jobs[r].nrx = @ + 1], r, dg)
             ELSE W

\* _handleDatagram(dg)
_handleDatagram(W, c, dg) ==
    LET w == W.conns[c]._currentResolve
    IN  IF w # NoWaiter
        THEN received([W EXCEPT !.conns[c]._currentResolve = NoWaiter,
                                !.conns[c].staleTimers = @ + 1,
                                !.conns[c].lastRequest = "settled",
                                !.jobs[w].rx =
                                    IF W.jobs[w].kind = "writeop" THEN dg ELSE @,
                                !.jobs[w].nrx = @ + 1],
                      w, dg)
        ELSE [W EXCEPT !.conns[c].discarded = (W.conns[c]._activeRequests > 0)]

\* the catch branch of _onData
parsingError(W, c) ==
    LET w == W.conns[c]._currentResolve
    IN  IF w # NoWaiter
        THEN throws([W EXCEPT !.conns[c]._currentResolve = NoWaiter,
                              !.conns[c].staleTimers = @ + 1,
                              !.conns[c].lastRequest = "settled"],
                    w, "Parsing error")
        ELSE W

\* a timer callback that rejects the waiter and leaves it in the slot
receiveTimer_keepsSlot(W, c, own) ==
    LET w  == W.conns[c]._currentResolve
        W1 == IF own THEN W
              ELSE [W EXCEPT !.conns[c].staleTimers = @ - 1]
    IN  IF w # NoWaiter
        THEN throws([W1 EXCEPT !.conns[c].lastRequest = "settled"],
                    w, "Receive timed out")
        ELSE W1

\* the callback of a _receive timer: own is TRUE for the timer the current
\* waiter's _receive call armed, FALSE for one of an earlier call.  Either
\* rejects whatever waiter is installed.
receiveTimer(W, c, own) ==
    LET w  == W.conns[c]._currentResolve
        W1 == IF own THEN W
              ELSE [W EXCEPT !.conns[c].staleTimers = @ - 1]
    IN  IF w # NoWaiter
        THEN throws([W1 EXCEPT !.conns[c]._currentResolve = NoWaiter,
                               !.conns[c].staleTimers =
                                   IF own THEN @ ELSE @ + 1,
                               !.conns[c].lastRequest =
                                   IF own THEN "settled" ELSE "stale"],
                    w, "Receive timed out")
        ELSE W1

\* the fns suspended in `await this.connect()` on c
AwaitingConnect(W, c) ==
    {j \in 1..Len(W.jobs) : W.jobs[j].conn = c /\ W.jobs[j].pc = "connect"}

\* the promise of connect() settles: the fns of the jobs js go on
\* (error = "") or throw
RECURSIVE connectSettles(_, _, _)
connectSettles(W, js, error) ==
    IF js = {} THEN W
    ELSE LET j == CHOOSE k \in js : \A l \in js : k <= l
         IN  connectSettles(IF error = "" THEN connWrite(W, j)
                            ELSE throws(W, j, error),
                            js \ {j}, error)

\* Connection.getPooledConnection(host, port, ...): the world afterwards
\* and the instance returned
getPooledConnection(W, host) ==
    LET reg    == W.pool[host]
        usable == reg # 0 /\ W.conns[reg].conn # "destroyed"
        new    == CHOOSE c \in Conns :
                      /\ ~W.conns[c].exists
                      /\ \A d \in Conns : d < c => W.conns[d].exists
    IN  IF usable THEN [world |-> W, conn |-> reg]
        ELSE [world |-> [W EXCEPT !.pool[host] = new,
                                  !.conns[new] =
                                      [Connection(host) EXCEPT
                                           !.pooled = TRUE]],
              conn |-> new]

NoGot == [host |-> "", conn |-> 0, before |-> 0]

\* the values write() is called with
Values == 0..2

\* an identifier as write() reads it: type, writable and the set of the
\* values its validate predicate accepts
BatteryStatusId ==
    [reg |-> BATTERY_STATUS, type |-> "uint32", writable |-> FALSE,
     validate |-> Values]

UseGridPowerId ==
    [reg |-> POWER_MNG_USE_GRID_POWER_ENABLE, type |-> "uint8",
     writable |-> TRUE, validate |-> {0, 1}]

\* an identifier object a caller has made: writable, of a type write() has
\* no case for
CallerMadeId ==
    [reg |-> BATTERY_STATUS, type |-> "uint32", writable |-> TRUE,
     validate |-> Values]

\* the types the switch of write() has a case for
WriteTypes == {"float32", "uint8", "uint16", "enum"}

NoThrow == [called |-> FALSE, identifier |-> BatteryStatusId, value |-> 0,
            error |-> ""]

\* write(identifier, value) before its first await: the error thrown, ""
\* if the call goes on to the pre-check
writeThrows(identifier, value) ==
    IF ~identifier.writable THEN "is not writable"
    ELSE IF value \notin identifier.validate THEN "Invalid value"
    ELSE IF identifier.type \notin WriteTypes THEN "Unsupported data type"
    ELSE ""

\* the data write() encodes value to for the types of the model
encode(identifier, value) == <<value % 256>>

\* a write() that calls the pre-check query before it looks at its
\* arguments
writeCall_checksLate(W, c, identifier, value) ==
    [world |-> write(W, c, identifier.reg, encode(identifier, value)),
     error |-> writeThrows(identifier, value)]

\* write(identifier, value) up to its first await: the world afterwards
\* and the error thrown
writeCall(W, c, identifier, value) ==
    LET e == writeThrows(identifier, value)
    IN  IF e # ""
        THEN [world |-> W, error |-> e]
        ELSE [world |-> write(W, c, identifier.reg, encode(identifier, value)),
              error |-> ""]

(***************************************************************************)
(* cache.js: the Cache.  The Map is the sequence of its entries in key     *)
(* order: set() of a new key appends, set() of a key that is present       *)
(* replaces the value where it stands, delete() removes.                   *)
(***************************************************************************)
\* the ids put into the Cache under test
MaxId == 3

CacheIds == 1..MaxId

\* this.timeout and this.maxSize of the Cache under test
timeout == 2

maxSize == 2

\* how far the clock runs
MaxNow == 5

CacheEntry(id, ts) == [id |-> id, ts |-> ts]

Map_has(es, id) == \E i \in 1..Len(es) : es[i].id = id

Map_get(es, id) == es[CHOOSE i \in 1..Len(es) : es[i].id = id]

RECURSIVE Map_delete(_, _)
Map_delete(es, id) ==
    IF es = <<>> THEN <<>>
    ELSE IF Head(es).id = id THEN Tail(es)
    ELSE <<Head(es)>> \o Map_delete(Tail(es), id)

Map_set(es, e) ==
    IF Map_has(es, e.id)
    THEN [i \in 1..Len(es) |-> IF es[i].id = e.id THEN e ELSE es[i]]
    ELSE Append(es, e)

\* a get(identifier) that never looks at the age of the entry
get_ignoresAge(es, id, t) ==
    IF ~Map_has(es, id) THEN [entries |-> es, hit |-> FALSE]
    ELSE [entries |-> es, hit |-> TRUE]

\* get(identifier) at time t: the Map afterwards and the flag returned
get(es, id, t) ==
    IF ~Map_has(es, id) THEN [entries |-> es, hit |-> FALSE]
    ELSE IF t - Map_get(es, id).ts > timeout
         THEN [entries |-> Map_delete(es, id), hit |-> FALSE]
         ELSE [entries |-> es, hit |-> TRUE]

\* the first loop of cleanup(): the entries older than timeout are deleted
RECURSIVE purge(_, _)
purge(es, t) ==
    IF es = <<>> THEN <<>>
    ELSE IF t - Head(es).ts > timeout THEN purge(Tail(es), t)
    ELSE <<Head(es)>> \o purge(Tail(es), t)

\* the second loop of cleanup(): keys is the snapshot Array.from(keys()),
\* the bound of i is taken from the shrinking Map in every round
RECURSIVE evictOldest(_, _, _)
evictOldest(es, keys, i) ==
    IF i < Len(es) - maxSize
    THEN evictOldest(Map_delete(es, keys[i + 1]), keys, i + 1)
    ELSE es

\* cleanup() at time t
cleanup(es, t) ==
    LET es1 == purge(es, t)
    IN  IF Len(es1) > maxSize
        THEN evictOldest(es1, [i \in 1..Len(es1) |-> es1[i].id], 0)
        ELSE es1

\* put(dg) at time t, id = dg.id
put(es, id, t) ==
    LET es1 == IF Len(es) >= maxSize THEN cleanup(es, t) ELSE es
    IN  Map_set(es1, CacheEntry(id, t))

\* the ids cleanup() at time t removes from es although they are not older
\* than timeout
Evicts(es, t) ==
    {e.id : e \in {purge(es, t)[i] : i \in 1..Len(purge(es, t))}}
        \ {e.id : e \in {cleanup(es, t)[i] : i \in 1..Len(cleanup(es, t))}}

NoCall == [op |-> "none", id |-> 0, hit |-> FALSE, at |-> 0]

(***************************************************************************)
(* Initial state                                                           *)
(***************************************************************************)
Init ==
    /\ builder = DatagramBuilder
    /\ buildError = ""
    /\ built = <<>>
    /\ parsed = NotParsed
    /\ wire = <<>>
    /\ sentFrames = <<>>
    /\ tamper = NoTamper
    /\ fed = 0
    /\ readBuffer = <<>>
    /\ events = <<>>
    /\ heldPartial = FALSE
    /\ _connectionPool = [h \in Hosts |-> 0]
    /\ conns = [c \in Conns |-> NoConnection]
    /\ jobs = <<>>
    /\ got = NoGot
    /\ thrown = NoThrow
    /\ entries = <<>>
    /\ now = 0
    /\ lastPut = [id \in CacheIds |-> -1]
    /\ evicted = {}
    /\ returned = NoCall

(***************************************************************************)
(* Codec actions.  A run exercises either one builder (Build, Roundtrip)   *)
(* or one reader fed from a stream (Transmit, InsertByte, AlterByte,       *)
(* Feed): the two objects share nothing.                                   *)
(***************************************************************************)
\* builder.build(dg)
Build(dg) ==
    /\ sentFrames = <<>>
    /\ Len(built) < MaxBuilds
    /\ LET r == build(builder, dg)
       IN  builder' = r.builder /\ buildError' = r.error
    /\ built' = Append(built, dg)
    /\ parsed' = NotParsed
    /\ UNCHANGED <<wire, sentFrames, tamper, fed, readBuffer, events,
                   heldPartial>>
    /\ UNCHANGED <<connVars, cacheVars>>

\* parser.buffer = builder.bytes(); parser.parse()
Roundtrip ==
    /\ built # <<>>
    /\ Len(built[Len(built)].data) <= MaxData
    /\ parsed = NotParsed
    /\ parsed' = parse(bytes(builder))
    /\ UNCHANGED <<builder, buildError, built, wire, sentFrames, tamper, fed,
                   readBuffer, events, heldPartial>>
    /\ UNCHANGED <<connVars, cacheVars>>

\* the peer frames dg and appends the frame to the stream; after a
\* corruption it continues with a frame the reader is able to deliver
Transmit(dg) ==
    /\ built = <<>>
    /\ tamper = NoTamper \/ dg = DgL0
    /\ Len(sentFrames) < MaxFrames
    /\ fed = 0
    /\ wire' = wire \o Frame(dg)
    /\ sentFrames' = Append(sentFrames, dg)
    /\ UNCHANGED <<builder, buildError, built, parsed, tamper, fed, readBuffer,
                   events, heldPartial>>
    /\ UNCHANGED <<connVars, cacheVars>>

\* the first frame is on the wire and one byte x is inserted so that it
\* becomes the byte at index pos; valid frames may follow
InsertByte(pos, x) ==
    /\ tamper = NoTamper /\ Len(sentFrames) = 1 /\ fed = 0
    /\ pos \in 0..Len(wire)
    /\ wire' = SubSeq(wire, 1, pos) \o <<x>> \o SubSeq(wire, pos + 1, Len(wire))
    /\ tamper' = [kind |-> "insert", pos |-> pos, byte |-> x]
    /\ UNCHANGED <<builder, buildError, built, parsed, sentFrames, fed,
                   readBuffer, events, heldPartial>>
    /\ UNCHANGED <<connVars, cacheVars>>

\* one byte of cmd, len, id or data of the first frame is altered to x
AlterByte(pos, x) ==
    /\ tamper = NoTamper /\ Len(sentFrames) = 1 /\ fed = 0
    /\ pos + 1 \in Covered(sentFrames[1])
    /\ wire[pos + 1] # x
    /\ wire' = [wire EXCEPT ![pos + 1] = x]
    /\ tamper' = [kind |-> "alter", pos |-> pos, byte |-> x]
    /\ UNCHANGED <<builder, buildError, built, parsed, sentFrames, fed,
                   readBuffer, events, heldPartial>>
    /\ UNCHANGED <<connVars, cacheVars>>

\* the socket's 'data' event with the next k bytes of the stream: an intact
\* stream arrives split in every possible way, a corrupted one byte by byte
\* or all at once
Feed(k) ==
    /\ k \in 1..(Len(wire) - fed)
    /\ tamper = NoTamper \/ k = 1 \/ k = Len(wire) - fed
    /\ LET r == _onData(readBuffer, SubSeq(wire, fed + 1, fed + k), events)
       IN  /\ readBuffer' = r.readBuffer
           /\ events' = r.events
           /\ heldPartial' = (heldPartial \/ r.readBuffer # <<>>)
    /\ fed' = fed + k
    /\ UNCHANGED <<builder, buildError, built, parsed, wire, sentFrames, tamper>>
    /\ UNCHANGED <<connVars, cacheVars>>

NextCodec ==
    \/ \E dg \in DgInputs : Build(dg)
    \/ Roundtrip
    \/ \E dg \in StreamDgs : Transmit(dg)
    \/ \E pos \in 0..MaxFrameLen : \E x \in NoiseBytes : InsertByte(pos, x)
    \/ \E pos \in 0..MaxFrameLen : \E x \in AlterBytes : AlterByte(pos, x)
    \/ \E k \in 1..(MaxFrames * MaxFrameLen + 1) : Feed(k)

SpecCodec == Init /\ [][NextCodec]_vars

(***************************************************************************)
(* Cache actions: time passes, and the owner of the Cache calls get, put   *)
(* and cleanup.                                                            *)
(***************************************************************************)
Tick ==
    /\ now < MaxNow
    /\ now' = now + 1
    /\ UNCHANGED <<entries, lastPut, evicted, returned>>
    /\ UNCHANGED <<codecVars, connVars>>

Get(id) ==
    /\ entries' = get(entries, id, now).entries
    /\ returned' = [op |-> "get", id |-> id,
                    hit |-> get(entries, id, now).hit, at |-> now]
    /\ UNCHANGED <<now, lastPut, evicted>>
    /\ UNCHANGED <<codecVars, connVars>>

Put(id) ==
    /\ entries' = put(entries, id, now)
    /\ lastPut' = [lastPut EXCEPT ![id] = now]
    /\ evicted' = (IF Len(entries) >= maxSize
                   THEN evicted \cup Evicts(entries, now)
                   ELSE evicted) \ {id}
    /\ returned' = [op |-> "put", id |-> id, hit |-> FALSE, at |-> now]
    /\ UNCHANGED now
    /\ UNCHANGED <<codecVars, connVars>>

Cleanup ==
    /\ entries' = cleanup(entries, now)
    /\ evicted' = evicted \cup Evicts(entries, now)
    /\ returned' = [op |-> "cleanup", id |-> 0, hit |-> FALSE, at |-> now]
    /\ UNCHANGED <<now, lastPut>>
    /\ UNCHANGED <<codecVars, connVars>>

NextCache ==
    \/ Tick
    \/ \E id \in CacheIds : Get(id)
    \/ \E id \in CacheIds : Put(id)
    \/ Cleanup

SpecCache == Init /\ [][NextCache]_vars

(***************************************************************************)
(* Connection: events.  Each action is one task of the event loop: a call  *)
(* by a user of the library, a socket event or a timer, together with the  *)
(* promise continuations it sets off.                                      *)
(***************************************************************************)
World == [pool |-> _connectionPool, conns |-> conns, jobs |-> jobs]

\* the continuations of write() run, then the event loop is idle again
Commit(W, g) ==
    \E W0 \in {W} : \E V \in {writeResumes(W0, 1)} :
        /\ _connectionPool' = V.pool
        /\ conns' = V.conns
        /\ jobs' = V.jobs
        /\ got' = g
        /\ thrown' = NoThrow
        /\ UNCHANGED <<codecVars, cacheVars>>

\* jobs enqueued and those write() calls will still enqueue
Reserved ==
    Len(jobs) + Cardinality({j \in 1..Len(jobs) : jobs[j].cont = "wait"})

\* a user calls Connection.getPooledConnection(host, port)
GetPooled(host) ==
    /\ \E c \in Conns : ~conns[c].exists
    /\ LET r == getPooledConnection(World, host)
       IN  Commit(r.world, [host |-> host, conn |-> r.conn,
                            before |-> _connectionPool[host]])

\* a user constructs a Connection directly
NewConnection(host) ==
    /\ \E c \in Conns : ~conns[c].exists
    /\ LET new == CHOOSE c \in Conns :
                      /\ ~conns[c].exists
                      /\ \A d \in Conns : d < c => conns[d].exists
       IN  Commit([World EXCEPT !.conns[new] = Connection(host)], NoGot)

\* a user calls c.close()
Close(c) ==
    /\ conns[c].exists
    /\ Commit(close([World EXCEPT !.conns[c].closeCalled = TRUE], c), NoGot)

\* a user calls c.query(identifier)
Query(c, reg) ==
    /\ conns[c].exists
    /\ Reserved + 1 <= MaxJobs
    /\ Commit(query(World, c, reg), NoGot)

\* a user calls c.write(identifier, value) with a writable identifier and a
\* valid value, which encodes to data
Write(c, reg, data) ==
    /\ conns[c].exists
    /\ Reserved + 2 <= MaxJobs
    /\ Commit(write(World, c, reg, data), NoGot)

\* a user calls c.write(identifier, value) with any identifier and value
WriteCall(c, identifier, value) ==
    /\ conns[c].exists
    /\ writeThrows(identifier, value) = "" => Reserved + 2 <= MaxJobs
    /\ LET r == writeCall(World, c, identifier, value)
           V == writeResumes(r.world, 1)
       IN  /\ _connectionPool' = V.pool
           /\ conns' = V.conns
           /\ jobs' = V.jobs
           /\ got' = NoGot
           /\ thrown' = [called |-> TRUE, identifier |-> identifier,
                         value |-> value, error |-> r.error]
           /\ UNCHANGED <<codecVars, cacheVars>>

\* the socket's 'connect' event
ConnectOk(c) ==
    /\ conns[c].conn = "connecting"
    /\ Commit(connectSettles(
                  setIdleTimeout([World EXCEPT !.conns[c].conn = "open"], c),
                  AwaitingConnect(World, c), ""),
              NoGot)

\* the socket's 'timeout' event: no traffic for DIAL_TIMEOUT
SocketTimeout(c) ==
    /\ conns[c].conn \in {"connecting", "open"}
    /\ conns[c].onTimeout
    /\ Commit(connectSettles(
                  close([World EXCEPT !.conns[c].onTimeout = FALSE], c),
                  AwaitingConnect(World, c), "Connection timed out"),
              NoGot)

\* the socket's 'error' event: the socket is destroyed
SocketError(c) ==
    /\ conns[c].conn \in {"connecting", "open"}
    /\ conns[c].onError
    /\ Commit(connectSettles(
                  close([World EXCEPT !.conns[c].conn = "destroyed",
                                      !.conns[c].onError = FALSE,
                                      !.conns[c].onTimeout = FALSE], c),
                  AwaitingConnect(World, c), "Connection error"),
              NoGot)

\* the peer ends the connection: the socket is destroyed, no listener of
\* the Connection hears of it
PeerClose(c) ==
    /\ conns[c].conn = "open"
    /\ Commit([World EXCEPT !.conns[c].conn = "destroyed",
                            !.conns[c].onError = FALSE,
                            !.conns[c].onTimeout = FALSE], NoGot)

\* the callback of conn.write: without error on an open socket, with an
\* error on one that is gone
WriteDone(j) ==
    /\ j \in 1..Len(jobs)
    /\ jobs[j].pc = "write"
    /\ conns[jobs[j].conn].conn # "connecting"
    /\ LET c == jobs[j].conn
           W == [World EXCEPT !.conns[c].sentOver = "none"]
       IN  IF conns[c].conn = "open"
           THEN Commit(afterSend(W, j), NoGot)
           ELSE Commit(throws(close([W EXCEPT
                                         !.conns[c].lastRequest = "settled"], c),
                              j, "Write error"),
                       NoGot)

\* the socket's 'data' event with a frame that decodes to dg
DataDatagram(c, dg) ==
    /\ conns[c].conn = "open"
    /\ Commit(_handleDatagram(World, c, dg), NoGot)

\* the socket's 'data' event with bytes the parser throws on
DataError(c) ==
    /\ conns[c].conn = "open"
    /\ Commit(parsingError(World, c), NoGot)

\* the timeout timer of a _receive call fires
ReceiveTimeout(c, own) ==
    /\ IF own THEN conns[c]._currentResolve # NoWaiter
       ELSE conns[c].staleTimers > 0
    /\ Commit(receiveTimer(World, c, own), NoGot)

\* a sleep of a job's fn is over
Slept(j) ==
    /\ j \in 1..Len(jobs)
    /\ jobs[j].pc \in {"backoff", "sleep800", "sleep200"}
    /\ Commit(slept(World, j), NoGot)

\* the idle timer fires
IdleTimeout(c) ==
    /\ conns[c]._idleTimeoutHandle
    /\ Commit(close(World, c), NoGot)

\* the cache timeout passes for an entry
Expire(c, reg) ==
    /\ conns[c].cache[reg].present
    /\ Commit([World EXCEPT !.conns[c].cache[reg] = NoEntry], NoGot)

Response(reg, data) == [cmd |-> RESPONSE, id |-> reg, data |-> data]

\* what the device sends: the status 0 and 1, the enable flag 1, a
\* response without data, and a frame of the status id that is no response
Incoming ==
    {Response(BATTERY_STATUS, <<0, 0, 0, 0>>),
     Response(BATTERY_STATUS, <<0, 0, 0, 1>>),
     Response(POWER_MNG_USE_GRID_POWER_ENABLE, <<1>>),
     Response(POWER_MNG_USE_GRID_POWER_ENABLE, <<>>),
     [cmd |-> READ, id |-> BATTERY_STATUS, data |-> <<0, 0, 0, 0>>]}

\* the socket events and timers
Events ==
    \/ \E c \in Conns : ConnectOk(c)
    \/ \E c \in Conns : SocketTimeout(c)
    \/ \E c \in Conns : SocketError(c)
    \/ \E c \in Conns : PeerClose(c)
    \/ \E j \in 1..MaxJobs : WriteDone(j)
    \/ \E c \in Conns : \E dg \in Incoming : DataDatagram(c, dg)
    \/ \E c \in Conns : DataError(c)
    \/ \E c \in Conns : \E own \in BOOLEAN : ReceiveTimeout(c, own)
    \/ \E j \in 1..MaxJobs : Slept(j)
    \/ \E c \in Conns : IdleTimeout(c)
    \/ \E c \in Conns : \E reg \in Identifier : Expire(c, reg)

\* One Connection, taken from the pool, and the queries and writes of its
\* users
Next ==
    \/ \E h \in Hosts : (\A c \in Conns : ~conns[c].exists) /\ GetPooled(h)
    \/ \E c \in Conns : Close(c)
    \/ \E c \in Conns : \E reg \in Identifier :
          Reserved < MaxSpecJobs /\ Query(c, reg)
    \/ \E c \in Conns :
          Reserved + 1 < MaxSpecJobs
              /\ Write(c, POWER_MNG_USE_GRID_POWER_ENABLE, <<1>>)
    \/ Events

Spec == Init /\ [][Next]_vars

\* One Connection on which the status is queried and, once that query has
\* settled, a register is written
NextWrite ==
    \/ \E h \in Hosts : (\A c \in Conns : ~conns[c].exists) /\ GetPooled(h)
    \/ \E c \in Conns : jobs = <<>> /\ Query(c, BATTERY_STATUS)
    \/ \E c \in Conns :
          /\ Len(jobs) = 1 /\ jobs[1].status # "pending"
          /\ Write(c, POWER_MNG_USE_GRID_POWER_ENABLE, <<1>>)
    \/ Events

SpecWrite == Init /\ [][NextWrite]_vars

\* The pool with several Connections, pooled and constructed directly, and
\* status queries on them
NextPool ==
    \/ \E h \in Hosts : GetPooled(h)
    \/ \E h \in Hosts : NewConnection(h)
    \/ \E c \in Conns : Close(c)
    \/ \E c \in Conns : Len(jobs) < MaxPoolJobs /\ Query(c, BATTERY_STATUS)
    \/ Events

SpecPool == Init /\ [][NextPool]_vars

\* Two holders of pooled Connections: each instance handed out makes one
\* status query, the next one after the queries before it have settled;
\* instances are closed by the idle timer and by socket events
NextHolders ==
    \/ \E h \in Hosts : GetPooled(h)
    \/ \E c \in Conns :
          /\ \A j \in 1..Len(jobs) :
                jobs[j].conn # c /\ jobs[j].status # "pending"
          /\ Query(c, BATTERY_STATUS)
    \/ Events

SpecHolders == Init /\ [][NextHolders]_vars

\* the events of a socket that stays connected
Answers ==
    \/ \E c \in Conns : ConnectOk(c)
    \/ \E j \in 1..MaxJobs : WriteDone(j)
    \/ \E c \in Conns : \E dg \in Incoming : DataDatagram(c, dg)
    \/ \E c \in Conns : \E own \in BOOLEAN : ReceiveTimeout(c, own)
    \/ \E j \in 1..MaxJobs : Slept(j)
    \/ \E c \in Conns : \E reg \in Identifier : Expire(c, reg)

\* One Connection on which a register is queried, then written, then
\* queried again, each call made after the one before it has settled; the
\* device holds 0 in the register before the write and stays connected
NextStale ==
    \/ \E h \in Hosts : (\A c \in Conns : ~conns[c].exists) /\ GetPooled(h)
    \/ \E c \in Conns :
          /\ Len(jobs) \in {0, 3}
          /\ \A j \in 1..Len(jobs) : jobs[j].status # "pending"
          /\ Query(c, POWER_MNG_USE_GRID_POWER_ENABLE)
    \/ \E c \in Conns :
          /\ Len(jobs) = 1 /\ jobs[1].status # "pending"
          /\ Write(c, POWER_MNG_USE_GRID_POWER_ENABLE, <<1>>)
    \/ \E c \in Conns :
          /\ Len(jobs) = 1
          /\ DataDatagram(c, Response(POWER_MNG_USE_GRID_POWER_ENABLE, <<0>>))
    \/ Answers

SpecStale == Init /\ [][NextStale]_vars

\* One Connection on which write() is called and, while its pre-check is
\* in progress, another caller makes a query; the socket stays connected
NextInterleaved ==
    \/ \E h \in Hosts : (\A c \in Conns : ~conns[c].exists) /\ GetPooled(h)
    \/ \E c \in Conns :
          jobs = <<>> /\ Write(c, POWER_MNG_USE_GRID_POWER_ENABLE, <<1>>)
    \/ \E c \in Conns : \E reg \in Identifier :
          /\ Len(jobs) = 1 /\ jobs[1].status = "pending"
          /\ Query(c, reg)
    \/ Answers

SpecInterleaved == Init /\ [][NextInterleaved]_vars

\* the callbacks the runtime owes: a socket that is connecting connects or
\* fails, a write calls back, a timer that is pending fires
ConnectFires ==
    \E c \in Conns :
        ConnectOk(c) \/ (conns[c].conn = "connecting" /\ SocketError(c))

WriteFires == \E j \in 1..MaxJobs : WriteDone(j)

TimerFires ==
    \/ \E c \in Conns : ReceiveTimeout(c, TRUE)
    \/ \E j \in 1..MaxJobs : Slept(j)

\* One Connection with status queries or a write, every socket event and
\* timer possible, and the callbacks owed eventually made
NextLive ==
    \/ \E h \in Hosts : (\A c \in Conns : ~conns[c].exists) /\ GetPooled(h)
    \/ \E c \in Conns : Reserved < MaxSpecJobs /\ Query(c, BATTERY_STATUS)
    \/ \E c \in Conns :
          jobs = <<>> /\ Write(c, POWER_MNG_USE_GRID_POWER_ENABLE, <<1>>)
    \/ Events

SpecLive ==
    /\ Init /\ [][NextLive]_vars
    /\ WF_vars(ConnectFires) /\ WF_vars(WriteFires) /\ WF_vars(TimerFires)

\* the write() calls that must fail: a register that is not writable, a
\* value the validate predicate rejects, a type without a case
RejectedWrites ==
    {<<BatteryStatusId, 1>>, <<UseGridPowerId, 2>>, <<CallerMadeId, 1>>}

\* One Connection with status queries in progress on which write() is
\* called with arguments it rejects
NextRejected ==
    \/ \E h \in Hosts : (\A c \in Conns : ~conns[c].exists) /\ GetPooled(h)
    \/ \E c \in Conns : Reserved < MaxSpecJobs /\ Query(c, BATTERY_STATUS)
    \/ \E c \in Conns : \E w \in RejectedWrites : WriteCall(c, w[1], w[2])
    \/ Events

SpecRejected == Init /\ [][NextRejected]_vars

(***************************************************************************)
(* Properties of the Connection and the pool                               *)
(***************************************************************************)
\* the jobs enqueued on c; a job's number is its place in enqueue order
JobsOf(c) == {j \in 1..Len(jobs) : jobs[j].conn = c}

\* seq lists the first jobs enqueued on c, in enqueue order
FirstJobsOf(c, seq) ==
    \A i \in 1..Len(seq) :
        /\ seq[i] \in JobsOf(c)
        /\ Cardinality({k \in JobsOf(c) : k < seq[i]}) = i - 1

C2_OneOutstanding ==
    \A c \in Conns : conns[c].sentOver \in {"none", "settled"}

C11_NoRecoverableSurfaced ==
    \A j \in 1..Len(jobs) :
        jobs[j].status = "rejected" => jobs[j].error \notin RecoverableErrors

\* the jobs whose fn runs retryOperation
Queries == {j \in 1..Len(jobs) : jobs[j].kind = "query"}

\* C12: retryOperation calls the operation at most MAX_RETRIES times, calls
\* it again only after a RecoverableError, and when every attempt failed
\* recoverably it stops after exactly MAX_RETRIES attempts with a terminal
\* error.
C12_RetryBudget ==
    \A j \in Queries :
        /\ jobs[j].calls <= MAX_RETRIES
        /\ jobs[j].calls <= jobs[j].attempt + 1
        /\ jobs[j].pc = "backoff" => jobs[j].raised \in RecoverableErrors
        /\ jobs[j].attempt = MAX_RETRIES <=>
              jobs[j].error = "Max retries reached"
        /\ jobs[j].error = "Max retries reached" =>
              /\ jobs[j].calls = MAX_RETRIES
              /\ jobs[j].status = "rejected"
              /\ jobs[j].raised \in RecoverableErrors
              /\ jobs[j].error \notin RecoverableErrors

\* a query whose attempts all failed recoverably
C12_Witness ==
    \E j \in Queries :
        /\ jobs[j].error = "Max retries reached"
        /\ jobs[j].calls = MAX_RETRIES /\ jobs[j].status = "rejected"

\* C13: an attempt of retryOperation that fails with an error that is not
\* a RecoverableError ends the job with that same error: no backoff, no
\* further attempt.
C13_NonRecoverable ==
    \A j \in Queries :
        jobs[j].raised \notin (RecoverableErrors \cup {""}) =>
            /\ jobs[j].pc = "done" /\ jobs[j].status = "rejected"
            /\ jobs[j].error = jobs[j].raised
            /\ jobs[j].calls = jobs[j].attempt + 1

\* a retried query whose second attempt failed in conn.write
C13_Witness ==
    \E j \in Queries :
        /\ jobs[j].raised = "Write error" /\ jobs[j].attempt = 1
        /\ jobs[j].calls = 2 /\ jobs[j].status = "rejected"

\* the status pre-checks of write() calls that have resumed
PreChecks == {j \in 1..Len(jobs) : jobs[j].cont \in {"enqueued", "failed"}}

\* C14: every write() first sends a READ of BATTERY_STATUS; a status other
\* than 0 makes it fail with the error coded BATTERY_NOT_NORMAL, without a
\* retry and without a WRITE frame.
C14_PreCheck ==
    \A j \in PreChecks :
        /\ jobs[j].reg = BATTERY_STATUS /\ jobs[j].calls >= 1
        /\ (jobs[j].status = "resolved" /\ jobs[j].value # 0) =>
              /\ jobs[j].cont = "failed"
              /\ jobs[j].werror = "BATTERY_NOT_NORMAL"

\* the jobs _enqueueWriteOperation enqueued
WriteOps == {j \in 1..Len(jobs) : jobs[j].kind = "writeop"}

\* C15: a write resolves only if, after its WRITE and its READ frame were
\* sent, its waiter was given a Response for the register whose data equal
\* the encoded value byte for byte; in every other case it fails.
C15_ReadBack ==
    \A j \in WriteOps :
        /\ jobs[j].status = "resolved" =>
              /\ jobs[j].phase \in {2, 3} /\ jobs[j].nrx >= 1
              /\ jobs[j].rx = Response(jobs[j].reg, jobs[j].data)
        /\ (jobs[j].pc = "done" /\ jobs[j].rx # Response(jobs[j].reg, jobs[j].data))
              => jobs[j].status = "rejected"

\* a write verified by the second response, the first had no data
C15_Witness ==
    \E j \in WriteOps :
        /\ jobs[j].status = "resolved" /\ jobs[j].phase = 3 /\ jobs[j].nrx = 2
        /\ jobs[j].rx = Response(POWER_MNG_USE_GRID_POWER_ENABLE, <<1>>)

C17_OnlyToInstalledWaiter ==
    [][\A j \in 1..Len(jobs) :
          jobs'[j].nrx # jobs[j].nrx =>
              /\ conns[jobs[j].conn]._currentResolve = j
              /\ jobs'[j].nrx = jobs[j].nrx + 1
              /\ conns'[jobs[j].conn]._currentResolve # j
              /\ ~(conns'[jobs[j].conn].discarded /\ ~conns[jobs[j].conn].discarded)
              /\ \A k \in 1..Len(jobs) : k # j => jobs'[k].nrx = jobs[k].nrx]_vars

\* a datagram was discarded while the job was under way, the job's waiter
\* was installed afterwards or before, and the job has received nothing
C17_Witness ==
    \E c \in Conns : \E j \in 1..Len(jobs) :
        /\ conns[c].discarded
        /\ conns[c]._currentResolve = j
        /\ jobs[j].pc = "receive"
        /\ jobs[j].nrx = 0

\* C18: if no datagram is delivered within the receive timeout of a _receive
\* call, that call's waiter is rejected with a RecoverableError, the waiter
\* slot is cleared, and the pipeline proceeds with the next attempt or the
\* next queued job.  The step in which a timer rejects the waiter of job j
\* raises a RecoverableError in j, leaves the slot empty, and either sends
\* j into the backoff before its next attempt or settles j as rejected and
\* starts the job at the head of the queue; and while a waiter is installed
\* its job is suspended in _receive, where the timer can reach it.
C18_ReceiveTimeout ==
    [][/\ \A c \in Conns :
             conns'[c]._currentResolve # NoWaiter =>
                 /\ jobs'[conns'[c]._currentResolve].pc = "receive"
                 /\ jobs'[conns'[c]._currentResolve].conn = c
       /\ \A j \in 1..Len(jobs) :
            (/\ conns[jobs[j].conn]._currentResolve = j
             /\ jobs'[j] # jobs[j]
             /\ jobs'[j].nrx = jobs[j].nrx
             /\ jobs'[j].raised = "Receive timed out")
            => /\ jobs'[j].raised \in RecoverableErrors
               /\ conns'[jobs[j].conn]._currentResolve = NoWaiter
               /\ \/ /\ jobs'[j].pc = "backoff"
                     /\ jobs'[j].kind = "query"
                     /\ jobs'[j].attempt = jobs[j].attempt + 1
                     /\ jobs'[j].attempt < MAX_RETRIES
                  \/ /\ jobs'[j].pc = "done"
                     /\ jobs'[j].status = "rejected"
                     /\ conns[jobs[j].conn]._requestQueue # <<>> =>
                           jobs'[Head(conns[jobs[j].conn]._requestQueue)].pc
                               # "queued"]_vars

\* a query's receive has timed out: the slot is empty and the query waits
\* for its next attempt
C18_Witness ==
    \E j \in 1..Len(jobs) :
        /\ jobs[j].raised = "Receive timed out"
        /\ jobs[j].nrx = 0
        /\ jobs[j].pc = "backoff"
        /\ conns[jobs[j].conn]._currentResolve = NoWaiter
        /\ conns[jobs[j].conn].lastRequest = "settled"

\* C19: whenever a receive begins during any sequence of query and write
\* calls on a Connection, the waiter slot is empty: no call of _receive has
\* thrown 'Another request is already waiting for a response', and the
\* waiter in the slot is the one of the job suspended in _receive.
C19_SlotEmpty ==
    /\ \A j \in 1..Len(jobs) :
          /\ jobs[j].raised # "Another request is already waiting"
          /\ jobs[j].error # "Another request is already waiting"
          /\ jobs[j].werror # "Another request is already waiting"
    /\ \A c \in Conns : \A j \in 1..Len(jobs) :
          (jobs[j].conn = c /\ jobs[j].pc = "receive")
              <=> conns[c]._currentResolve = j

\* the write job's second _receive, begun after the waiter of its first
\* was resolved with a response without data
C19_Witness ==
    \E j \in 1..Len(jobs) :
        /\ jobs[j].kind = "writeop" /\ jobs[j].phase = 3
        /\ jobs[j].pc = "receive" /\ jobs[j].nrx = 1
        /\ conns[jobs[j].conn]._currentResolve = j

\* C20: closed is terminal for a Connection instance: once _doClose() has
\* run on it, no later operation on it opens a transport again, so the
\* instance holds no socket from then on.
C20_ClosedTerminal ==
    \A c \in Conns : conns[c].closed => conns[c].conn = "null"

\* C21: at every moment at most one Connection instance obtained from the
\* pool for a given (host, port) has an open (non-destroyed) transport.
C21_OneLive ==
    \A h \in Hosts :
        Cardinality({c \in Conns : /\ conns[c].pooled
                                   /\ conns[c].host = h
                                   /\ conns[c].conn = "open"}) <= 1

\* C22: the pool entry of a key is removed only by the closing of the
\* instance registered under that key: a step that removes the entry is a
\* step in which _doClose runs on the registered instance.
C22_OwnEntryOnly ==
    [][\A h \in Hosts :
          (_connectionPool[h] # 0 /\ _connectionPool'[h] = 0)
              => (/\ ~conns[_connectionPool[h]].closed
                  /\ conns'[_connectionPool[h]].closed)]_vars

\* the queries that have completed successfully
Completed ==
    {j \in 1..Len(jobs) :
        jobs[j].kind = "query" /\ jobs[j].status = "resolved"}

\* C30: query(register) completes successfully only with a value taken from
\* a datagram whose cmd is Response and whose id is that of the register:
\* one delivered to the waiter of this query, or a cache entry that a query
\* of the same instance completed with (a hit comes before any request is
\* sent).  Every entry of a cache is a Response stored under its own id.
C30_ValueSource ==
    /\ \A j \in Completed :
          /\ jobs[j].from.cmd = RESPONSE
          /\ jobs[j].from.id = jobs[j].reg
          /\ jobs[j].value = Decoded(jobs[j].reg, jobs[j].from.data)
          /\ \/ jobs[j].calls >= 1 /\ jobs[j].nrx >= 1
             \/ /\ jobs[j].calls = 0 /\ jobs[j].nrx = 0
                /\ \E k \in Completed :
                      /\ jobs[k].conn = jobs[j].conn
                      /\ jobs[k].nrx >= 1
                      /\ jobs[k].from = jobs[j].from
    /\ \A c \in Conns : \A reg \in Identifier :
          conns[c].cache[reg].present =>
              /\ conns[c].cache[reg].cmd = RESPONSE
              /\ conns[c].cache[reg].id = reg

\* one query has completed with the datagram its waiter got and a second
\* one with the cache entry, after a frame that is no response had arrived
C30_Witness ==
    \E j, k \in Completed :
        /\ jobs[j].nrx >= 2
        /\ jobs[k].calls = 0
        /\ jobs[k].from = jobs[j].from
        /\ conns[jobs[j].conn].cache[jobs[j].reg].present

\* the number of frames job j had written before the step
SentBefore(j) == IF j <= Len(jobs) THEN jobs[j].sent ELSE 0

\* C31: a query that finds a fresh cache entry completes without writing a
\* frame, so that of the queries of one register enqueued together only the
\* first writes a READ frame, and only until a matching response has
\* answered it: while the entry of a register is in the cache (it was put
\* for a matching response and the TTL has not expired) no query of that
\* register writes a frame.
C31_OneRead ==
    [][\A j \in 1..Len(jobs') :
          (jobs'[j].kind = "query" /\ jobs'[j].sent > SentBefore(j))
              => ~conns[jobs'[j].conn].cache[jobs'[j].reg].present]_vars

\* C31 for the hit alone: a query that has found a cache entry has made no
\* call of operation() and has written no frame
C31_HitWritesNothing ==
    \A j \in 1..Len(jobs) :
        (jobs[j].kind = "query" /\ jobs[j].calls = 0) =>
            jobs[j].sent = 0 /\ jobs[j].pc \in {"queued", "done"}

\* C32: write() on a register that is not writable, with a value its
\* validate predicate rejects, or with a type write() has no case for fails
\* before anything is enqueued or sent: the call throws, and the pool, the
\* request queue, the active job count, the cache and the socket of every
\* Connection and every job with the frames it has written are as before.
C32_RejectedEarly ==
    [][(/\ thrown'.called
        /\ \/ ~thrown'.identifier.writable
           \/ thrown'.value \notin thrown'.identifier.validate
           \/ thrown'.identifier.type \notin WriteTypes)
          => /\ thrown'.error # ""
             /\ UNCHANGED <<_connectionPool, conns, jobs>>]_vars

\* write() has thrown for a rejected value while a query was waiting for
\* its response on the open socket and another one was queued
C32_Witness ==
    /\ thrown.called /\ thrown.error = "Invalid value"
    /\ \E c \in Conns :
          /\ conns[c].conn = "open"
          /\ conns[c]._requestQueue # <<>>
          /\ conns[c]._activeRequests = 2
          /\ conns[c]._currentResolve # NoWaiter

\* C34: the timeout timer armed by one _receive call rejects only the
\* waiter of that call: no waiter is rejected by the timer of an earlier
\* _receive call whose own waiter had been resolved or rejected before.
C34_OwnTimerOnly ==
    \A c \in Conns : conns[c].lastRequest # "stale"

\* C35: after a Connection has been closed, by close() at once or by the
\* deferred close at the end of a job, it has no armed idle timer.
C35_NoTimerAfterClose ==
    \A c \in Conns :
        (conns[c].closed /\ conns[c].conn = "null")
            => ~conns[c]._idleTimeoutHandle

\* C36: after write(register, v) has resolved, the next query(register) on
\* the same Connection returns v, also when it is served from the cache: a
\* query enqueued after the write job that finds a cache entry returns the
\* value written.
C36_ReadYourWrite ==
    \A w, q \in 1..Len(jobs) :
        (/\ jobs[w].kind = "writeop" /\ jobs[w].status = "resolved"
         /\ jobs[q].kind = "query" /\ jobs[q].status = "resolved"
         /\ q > w
         /\ jobs[q].conn = jobs[w].conn /\ jobs[q].reg = jobs[w].reg
         /\ jobs[q].calls = 0)
            => jobs[q].value = Decoded(jobs[w].reg, jobs[w].data)

\* C37: between the status pre-check of a write() call and the sending of
\* that call's WRITE frame no job of another caller runs on the Connection:
\* the job started before a write job is the pre-check of its write() call.
C37_WriteNotInterleaved ==
    \A c \in Conns : \A i \in 1..Len(conns[c].started) :
        jobs[conns[c].started[i]].kind = "writeop" =>
            /\ i > 1
            /\ jobs[conns[c].started[i - 1]].cont = "enqueued"
            /\ jobs[conns[c].started[i - 1]].wreg =
                   jobs[conns[c].started[i]].reg

\* C38: a job whose fn throws causes only its own promise to reject, with
\* that error; the jobs queued behind it are still executed, in enqueue
\* order, and a job behind it that settles in the same step has run its
\* own fn.
C38_FailureIsolated ==
    [][\A j \in 1..Len(jobs) :
          (jobs[j].status = "pending" /\ jobs'[j].status = "rejected") =>
              LET q == conns[jobs[j].conn]._requestQueue
              IN  /\ jobs'[j].error # "" /\ jobs'[j].pc = "done"
                  /\ \E i \in 1..Len(conns'[jobs[j].conn].started) :
                        conns'[jobs[j].conn].started[i] = j
                  /\ \A i \in 1..Len(q) :
                        /\ (q[i] # j /\ i = 1) => jobs'[q[i]].pc # "queued"
                        /\ jobs'[q[i]].pc # "queued" =>
                              \A m \in 1..(i - 1) : jobs'[q[m]].pc = "done"
                        /\ jobs'[q[i]].status # "pending" =>
                              jobs'[q[i]].pc = "done"]_vars

\* a query has been rejected with the error of its fn and the job queued
\* behind it has run and resolved
C38_Witness ==
    \E j, k \in 1..Len(jobs) :
        /\ j < k /\ jobs[j].conn = jobs[k].conn
        /\ jobs[j].status = "rejected" /\ jobs[j].raised # ""
        /\ jobs[k].status = "resolved" /\ jobs[k].nrx >= 1

\* no job waits in a queue nobody processes, and a Connection all of whose
\* jobs have settled is idle
QueueServed ==
    \A c \in Conns :
        /\ ~conns[c]._processing => conns[c]._requestQueue = <<>>
        /\ (\A j \in JobsOf(c) : jobs[j].status # "pending")
              => ~conns[c]._processing /\ conns[c]._activeRequests = 0

\* C39: every job enqueued on a Connection eventually settles, and the
\* Connection is idle (_processing false, _activeRequests 0) once its jobs
\* have settled, provided the connect and write callbacks and the timers
\* eventually fire; no job stays queued while _processing is false.
C39_EventuallySettled ==
    /\ []QueueServed
    /\ \A j \in 1..MaxSpecJobs :
          (Len(jobs) >= j /\ jobs[j].status = "pending")
              ~> (Len(jobs) >= j /\ jobs[j].status # "pending")

\* two jobs were enqueued, the second one while the first was running,
\* both have settled and the Connection is idle
C39_Witness ==
    \E c \in Conns :
        /\ Len(conns[c].settled) = 2
        /\ \A j \in JobsOf(c) : jobs[j].calls >= 1
        /\ ~conns[c]._processing /\ conns[c]._activeRequests = 0

\* the jobs of c whose fn has been called and has not settled
Running(c) == {j \in JobsOf(c) : Executing(jobs[j])}

\* C40: _activeRequests of a Connection is the number of jobs waiting in
\* _requestQueue plus one if a job is executing; it is never negative, and
\* _processing is true whenever a job is executing or queued.
C40_ActiveRequests ==
    \A c \in Conns :
        /\ Cardinality(Running(c)) <= 1
        /\ conns[c]._activeRequests =
               Len(conns[c]._requestQueue) + Cardinality(Running(c))
        /\ conns[c]._activeRequests >= 0
        /\ (Running(c) # {} \/ conns[c]._requestQueue # <<>>)
              => conns[c]._processing

\* one job is executing and another waits in the queue behind it
C40_Witness ==
    \E c \in Conns :
        /\ Cardinality(Running(c)) = 1
        /\ Len(conns[c]._requestQueue) = 1
        /\ conns[c]._activeRequests = 2
        /\ conns[c]._processing

(***************************************************************************)
(* Properties of the codec                                                 *)
(***************************************************************************)
LastBuilt == built[Len(built)]

\* the datagrams the reader has delivered, in order
Delivered == SelectSeq(events, LAMBDA e : e.kind = "datagram")

\* the bytes of the wire the reader has received
Received == SubSeq(wire, 1, fed)

\* C4: round trip.  Parsing the bytes build() produced for a datagram with a
\* command of the command set, an id in [0, 2^32-1] and data bytes in
\* [0, 255] yields a datagram with the same cmd, id and data.
C4_RoundTrip ==
    (parsed # NotParsed /\ LastBuilt \in ValidDgs)
        => parsed = DatagramEvent(LastBuilt)

\* C5: build() produces 2B 01 04 40 0F 01 5B 58 B4 for {1, 0x400F015B, []}
\* and 2B 01 04 DB 2D 2D 69 AE 55 AB for {1, 0xDB2D69AE, []}, whatever the
\* same builder built before.
C5_ExpectedBytes ==
    built # <<>> =>
        /\ LastBuilt = DgS1 =>
              /\ buildError = ""
              /\ bytes(builder) = <<43, 1, 4, 64, 15, 1, 91, 88, 180>>
        /\ LastBuilt = DgS2 =>
              /\ buildError = ""
              /\ bytes(builder) = <<43, 1, 4, 219, 45, 45, 105, 174, 85, 171>>

\* S2 built after a longer frame with the same builder
C5_Witness ==
    /\ Len(built) = 2 /\ built[1] = DgLD /\ built[2] = DgS2
    /\ bytes(builder) = <<43, 1, 4, 219, 45, 45, 105, 174, 85, 171>>

\* C6: build() fails with an error and leaves no frame bytes whenever the id
\* is outside [0, 2^32-1], cmd is outside [0, 255] or a data byte is outside
\* [0, 255].
C6_Validation ==
    (built # <<>> /\ LastBuilt \in InvalidDgs)
        => (buildError # "" /\ bytes(builder) = <<>>)

\* the id 2^32 rejected by a builder that had built a frame before
C6_Witness ==
    /\ Len(built) = 2 /\ built[1] \in ValidDgs
    /\ built[2] = Dg(READ, 65536, 0, <<1, 2, 3>>)
    /\ buildError = "Invalid ID" /\ bytes(builder) = <<>>

C8_TwoFrames ==
    (tamper = NoTamper /\ Len(sentFrames) = 2 /\ fed = Len(wire))
        => /\ events = <<DatagramEvent(sentFrames[1]),
                         DatagramEvent(sentFrames[2])>>
           /\ readBuffer = <<>>

\* the frames the parser accepts when nothing is corrupted
Decodable(dg) == parse(Frame(dg)) = DatagramEvent(dg)

\* C9: resync.  One byte inserted into a stream of valid frames costs at
\* most one frame: once the whole stream has arrived, all frames but at
\* most one have been delivered and the reader is not left waiting.
C9_Resync ==
    (/\ tamper.kind = "insert" /\ fed = Len(wire)
     /\ \A i \in 1..Len(sentFrames) : Decodable(sentFrames[i]))
        => Len(Delivered) >= Len(sentFrames) - 1

\* C10: CRC coverage.  A frame with one byte of cmd, len, id or data
\* altered makes the decoder raise a CRC error: no datagram is returned
\* for it and it is not silently consumed or left waiting.
C10_CrcCoverage ==
    (tamper.kind = "alter" /\ Len(sentFrames) = 1 /\ fed = Len(wire))
        => /\ Delivered = <<>>
           /\ events # <<>>
           /\ events[1] = ErrorEvent("CRC mismatch")


\* the CRC-16 the frame format names: polynomial 0x1021, a register of 16
\* bits, most significant bit first
RECURSIVE Crc16_byte(_, _, _)
Crc16_byte(crc, b, i) ==
    IF i = 8 THEN crc
    ELSE IF (BitAt(crc, 15) = 1) # (BitAt(b, 7 - i) = 1)
         THEN Crc16_byte(CRC_xorPoly((crc * 2) % 65536), b, i + 1)
         ELSE Crc16_byte((crc * 2) % 65536, b, i + 1)

RECURSIVE Crc16(_, _)
Crc16(crc, xs) ==
    IF xs = <<>> THEN crc
    ELSE IF Len(xs) = 1 THEN Crc16_byte(crc, xs[1], 0)
    ELSE LET h == Len(xs) \div 2
             c == Crc16(crc, SubSeq(xs, 1, h))
         IN  IF c \in Int THEN Crc16(c, SubSeq(xs, h + 1, Len(xs))) ELSE c

\* the bytes build(dg) feeds through CRC.update, and the zero byte that
\* extends a sequence of odd length
CrcFed(dg) ==
    <<dg.cmd, (4 + Len(dg.data)) % 256>> \o idBytes(dg.id) \o dg.data

ZeroPadded(xs) == IF Len(xs) % 2 = 1 THEN Append(xs, 0) ELSE xs

\* C26: for every byte sequence fed through CRC.update, CRC.get returns a
\* value in [0, 0xFFFF] equal to the CRC-16 (polynomial 0x1021, initial
\* value 0xFFFF) of the sequence extended by one zero byte when its length
\* is odd.  Checked on the CRC object of the builder after build().
C26_Crc16 ==
    (built # <<>> /\ buildError = "") =>
        /\ CRC_get(builder.crc) \in 0..65535
        /\ CRC_get(builder.crc) = Crc16(65535, ZeroPadded(CrcFed(LastBuilt)))

\* C26 for the low 16 bits of what CRC.get returns
C26_LowBits ==
    (built # <<>> /\ buildError = "") =>
        CRC_get(builder.crc) % 65536
            = Crc16(65535, ZeroPadded(CrcFed(LastBuilt)))

\* xs with one escape byte before each 0x2B and 0x2D
RECURSIVE Stuffed(_)
Stuffed(xs) ==
    IF xs = <<>> THEN <<>>
    ELSE IF Len(xs) = 1
    THEN IF xs[1] = START_BYTE \/ xs[1] = ESCAPE_BYTE
         THEN <<ESCAPE_BYTE, xs[1]>>
         ELSE xs
    ELSE LET h == Len(xs) \div 2
         IN  Stuffed(SubSeq(xs, 1, h)) \o Stuffed(SubSeq(xs, h + 1, Len(xs)))

\* the number of escape bytes that stand in a row right before position i
EscapeRun(frame, i) ==
    Cardinality({k \in 1..(i - 1) :
                    \A m \in 1..k : frame[i - m] = ESCAPE_BYTE})

\* the positions from i on at which frame holds a 0x2B that no escape byte
\* escapes: a byte behind an odd run of escape bytes is an escaped byte
UnescapedStarts(frame, i) ==
    {p \in i..Len(frame) :
        frame[p] = START_BYTE /\ EscapeRun(frame, p) % 2 = 0}

\* C27: escape correctness.  In every frame produced by build, each byte of
\* cmd, len, id or data equal to 0x2B or 0x2D is preceded by exactly one
\* 0x2D escape byte, no other 0x2D appears in those positions, and an
\* unescaped 0x2B occurs exactly once in the whole frame, as its first byte.
C27_Escaping ==
    (built # <<>> /\ buildError = "") =>
        LET frame == bytes(builder)
        IN  /\ Len(frame) >= 3
            /\ SubSeq(frame, 2, Len(frame) - 2) = Stuffed(CrcFed(LastBuilt))
            /\ UnescapedStarts(frame, 1) = {1}

\* C27 for the bytes before the CRC: the stuffing of cmd, len, id and data
C27_PayloadEscaped ==
    (built # <<>> /\ buildError = "") =>
        LET frame == bytes(builder)
        IN  /\ frame[1] = START_BYTE
            /\ SubSeq(frame, 2, Len(frame) - 2) = Stuffed(CrcFed(LastBuilt))

\* C28: the decoder never returns a datagram whose cmd is outside the
\* command set {1, 2, 3, 4, 5, 6, 7, 8, 0x3C}.
C28_CommandSet ==
    /\ parsed.kind = "datagram" => parsed.datagram.cmd \in Command
    /\ \A i \in 1..Len(Delivered) : Delivered[i].datagram.cmd \in Command

\* the length byte of a frame: the byte behind the cmd byte, escape bytes
\* skipped
LengthByte(frame) ==
    LET lenPos == IF frame[2] = ESCAPE_BYTE THEN 4 ELSE 3
    IN  IF frame[lenPos] = ESCAPE_BYTE THEN frame[lenPos + 1]
        ELSE frame[lenPos]

\* C29: every frame emitted by build carries a length byte equal to 4 + the
\* number of data bytes that follow the id; no frame is emitted for data
\* longer than 251 bytes.
C29_Length ==
    (built # <<>> /\ buildError = "") =>
        /\ Len(LastBuilt.data) <= MaxData
        /\ LengthByte(bytes(builder)) = 4 + Len(LastBuilt.data)

\* C29 for data of at most 251 bytes
C29_LengthWithinRange ==
    (built # <<>> /\ buildError = "" /\ Len(LastBuilt.data) <= MaxData) =>
        LengthByte(bytes(builder)) = 4 + Len(LastBuilt.data)

(***************************************************************************)
(* Properties of the cache                                                 *)
(***************************************************************************)
\* a put of id occurred within the last timeout ms before the last call
PutWithinTtl(id) ==
    lastPut[id] >= 0 /\ returned.at - lastPut[id] <= timeout

\* C23: cache TTL.  get(id) returns hit = true only if a put of that id
\* occurred within the last timeout ms, and it does return hit = true after
\* such a put unless a cleanup has since removed the entry for size.
C23_HitWithinTtl ==
    returned.op = "get" =>
        /\ returned.hit => PutWithinTtl(returned.id)
        /\ (PutWithinTtl(returned.id) /\ returned.id \notin evicted)
              => returned.hit

\* a hit on an entry that has aged, with another entry evicted for size
\* in between
C23_Witness ==
    /\ returned.op = "get" /\ returned.hit
    /\ lastPut[returned.id] < returned.at
    /\ evicted # {}

\* C23 as stated: get(id) returns hit = true if and only if a put of that
\* id occurred within the last timeout ms, whatever other puts and cleanups
\* happened in between.
C23_TTL ==
    returned.op = "get" => (returned.hit <=> PutWithinTtl(returned.id))

\* C24: cache bound.  After every put returns the number of entries is at
\* most maxSize.
C24_Bound ==
    returned.op = "put" => Len(entries) <= maxSize

\* C25: immediately after any get completes, every entry still present in
\* the cache satisfies now - inserted_at <= ttl.
C25_NoneExpired ==
    returned.op = "get" =>
        \A i \in 1..Len(entries) : returned.at - entries[i].ts <= timeout

\* entry i of the Map is not older than timeout, so that cleanup() takes it
\* away only for size
Fresh(i) == now - entries[i].ts <= timeout

\* C33: whenever the cache evicts entries because it is over capacity, the
\* evicted entries are those with the oldest timestamps: no entry the step
\* retains is older than one it evicts, also when an id was put again after
\* its first insertion.
C33_OldestEvicted ==
    [][\A i, k \in 1..Len(entries) :
          (/\ Fresh(i) /\ Fresh(k)
           /\ ~Map_has(entries', entries[i].id)
           /\ Map_has(entries', entries[k].id)
           /\ Map_get(entries', entries[k].id) = entries[k])
              => entries[k].ts >= entries[i].ts]_vars

====
